---- MODULE Spec2Model ----
(***************************************************************************)
(* Model of the conversation bot of main.go: the session store             *)
(* (ThreadSafeStorage), the per-session state machine (ProcessUpdate and   *)
(* its handlers) and the dispatch loop of main.                            *)
(*                                                                         *)
(* Strings are sequences of code points, so that strings.ToLower, the      *)
(* regular expressions and the JSON codec are computed and not assumed.    *)
(* The file system is assumed not to fail on a write.                      *)
(***************************************************************************)
EXTENDS Integers, Sequences, FiniteSets, TLC

\* ------------------------------------------------------------------------
\* Bounds of the model
\* ------------------------------------------------------------------------
\* number of inbound events the dispatch loop takes from the gateway
MaxEvents == 2
\* number of concurrent callers of the store
NumThreads == 2

\* ------------------------------------------------------------------------
\* Constants of the program
\* ------------------------------------------------------------------------
StateChoosing == 0
StateTypingReply == 1
StateTypingChoice == 2

States == {StateChoosing, StateTypingReply, StateTypingChoice}

\* string literals of main.go, as code points
Age == <<65,103,101>>
FavouriteColour == <<70,97,118,111,117,114,105,116,101,32,99,111,108,111,117,114>>
NumberOfSiblings == <<78,117,109,98,101,114,32,111,102,32,115,105,98,108,105,110,103,115>>
SomethingElsePrefix == <<83,111,109,101,116,104,105,110,103,32,101,108,115,101>>
SomethingElse == SomethingElsePrefix \o <<46,46,46>>
Done == <<68,111,110,101>>
CmdStart == <<115,116,97,114,116>>
CmdShowData == <<115,104,111,119,95,100,97,116,97>>
\* " - " of factsToString, ", " of handleStart, "\n"
FactSep == <<32,45,32>>
KeySep == <<44,32>>
NewLine == <<10>>

\* ------------------------------------------------------------------------
\* Strings
\* ------------------------------------------------------------------------
\* the code points that unicode.ToLower changes: from the first to the last
\* of a range, every one or every second, each moved by the same distance
CaseRanges ==
    <<<<65, 90, 32, 1>>, <<192, 214, 32, 1>>, <<216, 222, 32, 1>>,
       <<256, 302, 1, 2>>, <<304, 304, -199, 1>>, <<306, 310, 1, 2>>,
       <<313, 327, 1, 2>>, <<330, 374, 1, 2>>, <<376, 376, -121, 1>>,
       <<377, 381, 1, 2>>, <<385, 385, 210, 1>>, <<386, 388, 1, 2>>,
       <<390, 390, 206, 1>>, <<391, 391, 1, 1>>, <<393, 394, 205, 1>>,
       <<395, 395, 1, 1>>, <<398, 398, 79, 1>>, <<399, 399, 202, 1>>,
       <<400, 400, 203, 1>>, <<401, 401, 1, 1>>, <<403, 403, 205, 1>>,
       <<404, 404, 207, 1>>, <<406, 406, 211, 1>>, <<407, 407, 209, 1>>,
       <<408, 408, 1, 1>>, <<412, 412, 211, 1>>, <<413, 413, 213, 1>>,
       <<415, 415, 214, 1>>, <<416, 420, 1, 2>>, <<422, 422, 218, 1>>,
       <<423, 423, 1, 1>>, <<425, 425, 218, 1>>, <<428, 428, 1, 1>>,
       <<430, 430, 218, 1>>, <<431, 431, 1, 1>>, <<433, 434, 217, 1>>,
       <<435, 437, 1, 2>>, <<439, 439, 219, 1>>, <<440, 440, 1, 1>>,
       <<444, 444, 1, 1>>, <<452, 452, 2, 1>>, <<453, 453, 1, 1>>,
       <<455, 455, 2, 1>>, <<456, 456, 1, 1>>, <<458, 458, 2, 1>>,
       <<459, 475, 1, 2>>, <<478, 494, 1, 2>>, <<497, 497, 2, 1>>,
       <<498, 500, 1, 2>>, <<502, 502, -97, 1>>, <<503, 503, -56, 1>>,
       <<504, 542, 1, 2>>, <<544, 544, -130, 1>>, <<546, 562, 1, 2>>,
       <<570, 570, 10795, 1>>, <<571, 571, 1, 1>>, <<573, 573, -163, 1>>,
       <<574, 574, 10792, 1>>, <<577, 577, 1, 1>>, <<579, 579, -195, 1>>,
       <<580, 580, 69, 1>>, <<581, 581, 71, 1>>, <<582, 590, 1, 2>>,
       <<880, 882, 1, 2>>, <<886, 886, 1, 1>>, <<895, 895, 116, 1>>,
       <<902, 902, 38, 1>>, <<904, 906, 37, 1>>, <<908, 908, 64, 1>>,
       <<910, 911, 63, 1>>, <<913, 929, 32, 1>>, <<931, 939, 32, 1>>,
       <<975, 975, 8, 1>>, <<984, 1006, 1, 2>>, <<1012, 1012, -60, 1>>,
       <<1015, 1015, 1, 1>>, <<1017, 1017, -7, 1>>, <<1018, 1018, 1, 1>>,
       <<1021, 1023, -130, 1>>, <<1024, 1039, 80, 1>>, <<1040, 1071, 32, 1>>,
       <<1120, 1152, 1, 2>>, <<1162, 1214, 1, 2>>, <<1216, 1216, 15, 1>>,
       <<1217, 1229, 1, 2>>, <<1232, 1326, 1, 2>>, <<1329, 1366, 48, 1>>,
       <<4256, 4293, 7264, 1>>, <<4295, 4295, 7264, 1>>,
       <<4301, 4301, 7264, 1>>, <<5024, 5103, 38864, 1>>,
       <<5104, 5109, 8, 1>>, <<7312, 7354, -3008, 1>>,
       <<7357, 7359, -3008, 1>>, <<7680, 7828, 1, 2>>,
       <<7838, 7838, -7615, 1>>, <<7840, 7934, 1, 2>>, <<7944, 7951, -8, 1>>,
       <<7960, 7965, -8, 1>>, <<7976, 7983, -8, 1>>, <<7992, 7999, -8, 1>>,
       <<8008, 8013, -8, 1>>, <<8025, 8031, -8, 2>>, <<8040, 8047, -8, 1>>,
       <<8072, 8079, -8, 1>>, <<8088, 8095, -8, 1>>, <<8104, 8111, -8, 1>>,
       <<8120, 8121, -8, 1>>, <<8122, 8123, -74, 1>>, <<8124, 8124, -9, 1>>,
       <<8136, 8139, -86, 1>>, <<8140, 8140, -9, 1>>, <<8152, 8153, -8, 1>>,
       <<8154, 8155, -100, 1>>, <<8168, 8169, -8, 1>>,
       <<8170, 8171, -112, 1>>, <<8172, 8172, -7, 1>>,
       <<8184, 8185, -128, 1>>, <<8186, 8187, -126, 1>>,
       <<8188, 8188, -9, 1>>, <<8486, 8486, -7517, 1>>,
       <<8490, 8490, -8383, 1>>, <<8491, 8491, -8262, 1>>,
       <<8498, 8498, 28, 1>>, <<8544, 8559, 16, 1>>, <<8579, 8579, 1, 1>>,
       <<9398, 9423, 26, 1>>, <<11264, 11311, 48, 1>>,
       <<11360, 11360, 1, 1>>, <<11362, 11362, -10743, 1>>,
       <<11363, 11363, -3814, 1>>, <<11364, 11364, -10727, 1>>,
       <<11367, 11371, 1, 2>>, <<11373, 11373, -10780, 1>>,
       <<11374, 11374, -10749, 1>>, <<11375, 11375, -10783, 1>>,
       <<11376, 11376, -10782, 1>>, <<11378, 11378, 1, 1>>,
       <<11381, 11381, 1, 1>>, <<11390, 11391, -10815, 1>>,
       <<11392, 11490, 1, 2>>, <<11499, 11501, 1, 2>>,
       <<11506, 11506, 1, 1>>, <<42560, 42604, 1, 2>>,
       <<42624, 42650, 1, 2>>, <<42786, 42798, 1, 2>>,
       <<42802, 42862, 1, 2>>, <<42873, 42875, 1, 2>>,
       <<42877, 42877, -35332, 1>>, <<42878, 42886, 1, 2>>,
       <<42891, 42891, 1, 1>>, <<42893, 42893, -42280, 1>>,
       <<42896, 42898, 1, 2>>, <<42902, 42920, 1, 2>>,
       <<42922, 42922, -42308, 1>>, <<42923, 42923, -42319, 1>>,
       <<42924, 42924, -42315, 1>>, <<42925, 42925, -42305, 1>>,
       <<42926, 42926, -42308, 1>>, <<42928, 42928, -42258, 1>>,
       <<42929, 42929, -42282, 1>>, <<42930, 42930, -42261, 1>>,
       <<42931, 42931, 928, 1>>, <<42932, 42946, 1, 2>>,
       <<42948, 42948, -48, 1>>, <<42949, 42949, -42307, 1>>,
       <<42950, 42950, -35384, 1>>, <<42951, 42953, 1, 2>>,
       <<42960, 42960, 1, 1>>, <<42966, 42968, 1, 2>>,
       <<42997, 42997, 1, 1>>, <<65313, 65338, 32, 1>>,
       <<66560, 66599, 40, 1>>, <<66736, 66771, 40, 1>>,
       <<66928, 66938, 39, 1>>, <<66940, 66954, 39, 1>>,
       <<66956, 66962, 39, 1>>, <<66964, 66965, 39, 1>>,
       <<68736, 68786, 64, 1>>, <<71840, 71871, 32, 1>>,
       <<93760, 93791, 32, 1>>, <<125184, 125217, 34, 1>> >>

\* unicode.ToLower on one code point
ToLowerChar(c) ==
    IF c < 128 THEN (IF c >= 65 /\ c =< 90 THEN c + 32 ELSE c)
    ELSE IF \E i \in DOMAIN CaseRanges :
               /\ c >= CaseRanges[i][1] /\ c =< CaseRanges[i][2]
               /\ (c - CaseRanges[i][1]) % CaseRanges[i][4] = 0
         THEN LET i == CHOOSE j \in DOMAIN CaseRanges :
                           /\ c >= CaseRanges[j][1] /\ c =< CaseRanges[j][2]
                           /\ (c - CaseRanges[j][1]) % CaseRanges[j][4] = 0
              IN  c + CaseRanges[i][3]
         ELSE c

\* strings.ToLower
ToLower(s) == [i \in 1..Len(s) |-> ToLowerChar(s[i])]

\* strings.Join
RECURSIVE Join(_, _)
Join(elems, sep) ==
    IF Len(elems) = 0 THEN <<>>
    ELSE IF Len(elems) = 1 THEN elems[1]
    ELSE elems[1] \o sep \o Join(Tail(elems), sep)

\* the orders in which a range over a Go map with key set S can visit it
Orders(S) ==
    {o \in [1..Cardinality(S) -> S] : \A k \in S : \E i \in DOMAIN o : o[i] = k}

\* regexp "(?i)^Done$"
isDone(text) ==
    /\ Len(text) = Len(Done)
    /\ \A i \in 1..Len(Done) : ToLowerChar(text[i]) = ToLowerChar(Done[i])

\* regexp "^(Age|Favourite colour|Number of siblings)$"
isRegular(text) == text \in {Age, FavouriteColour, NumberOfSiblings}

\* regexp "^Something else...$": each dot matches any code point but \n
isCustom(text) ==
    /\ Len(text) = Len(SomethingElsePrefix) + 3
    /\ SubSeq(text, 1, Len(SomethingElsePrefix)) = SomethingElsePrefix
    /\ \A i \in (Len(SomethingElsePrefix) + 1)..Len(text) : text[i] # 10

\* ------------------------------------------------------------------------
\* Inbound events
\* ------------------------------------------------------------------------
\* An update carries a message or none; a message has the sender, the text
\* and the length of a bot_command entity at offset 0 (0: no such entity).
NoMessage == [hasMessage |-> FALSE, from |-> 0, text |-> <<>>, entityLen |-> 0]

Message(a, t, e) == [hasMessage |-> TRUE, from |-> a, text |-> t, entityLen |-> e]

\* Message.IsCommand
IsCommand(u) == u.entityLen > 0

\* index of the first "@" of s, 0 when there is none
RECURSIVE IndexAt(_, _)
IndexAt(s, i) ==
    IF i > Len(s) THEN 0 ELSE IF s[i] = 64 THEN i ELSE IndexAt(s, i + 1)

\* Message.Command: the entity without its slash, cut at "@"
Command(u) ==
    IF ~IsCommand(u) THEN <<>>
    ELSE LET withAt == SubSeq(u.text, 2, u.entityLen)
             at == IndexAt(withAt, 1)
         IN  IF at = 0 THEN withAt ELSE SubSeq(withAt, 1, at - 1)

\* ------------------------------------------------------------------------
\* Sessions and outbound messages
\* ------------------------------------------------------------------------
\* NoData is the empty map[string]string
NoData == <<>>

\* the UserSession that GetOrCreateSession creates: UserDataNil tells the
\* nil map from the empty map that make returns
NewSession ==
    [State |-> StateChoosing, CurrentKey |-> <<>>, UserData |-> NoData,
     LastUpdated |-> 0, UserDataNil |-> FALSE]

\* the nil *UserSession, where a map is given by value
NilSession == [nil |-> TRUE]

\* UserData[k] = v
SetData(d, k, v) == [x \in DOMAIN d \cup {k} |-> IF x = k THEN v ELSE d[x]]

\* a message handed to bot.Send: the format string, its arguments and the
\* reply markup
Msg(tmpl, args, markup) == [tmpl |-> tmpl, args |-> args, markup |-> markup]

\* factsToString, for one iteration order of the map
factsToString(userData, o) ==
    Join([i \in 1..Len(o) |-> o[i] \o FactSep \o userData[o[i]]], NewLine)

\* An outcome of a handler: the session as it leaves it and the messages
\* sent.  A handler is the set of its outcomes, one per iteration order.
Outcome(s, msgs) == [session |-> s, sent |-> msgs, panics |-> FALSE]

\* the handler panics: nothing is assigned and nothing sent
Panic(s) == [session |-> s, sent |-> <<>>, panics |-> TRUE]

handleStart(u, s) ==
    { Outcome([s EXCEPT !.State = StateChoosing],
              << IF Cardinality(DOMAIN s.UserData) > 0
                 THEN Msg("start_known", <<Join(o, KeySep)>>, "mainKeyboard")
                 ELSE Msg("start_fresh", <<>>, "mainKeyboard") >>)
      : o \in Orders(DOMAIN s.UserData) }

handleRegularChoice(u, s) ==
    LET text == ToLower(u.text) IN
    { Outcome([s EXCEPT !.CurrentKey = text, !.State = StateTypingReply],
              << IF text \in DOMAIN s.UserData
                 THEN Msg("already_know", <<text, s.UserData[text]>>, "none")
                 ELSE Msg("love_to_hear", <<text>>, "none") >>) }

handleCustomChoice(u, s) ==
    { Outcome([s EXCEPT !.State = StateTypingChoice],
              << Msg("category_first", <<>>, "none") >>) }

\* handleReceivedInformation without the clearing of CurrentKey; as in
\* handleReceivedInformation, the assignment to a nil map panics
handleReceivedInformationKeepKey(u, s) ==
    LET text == u.text
        category == s.CurrentKey
        data == SetData(s.UserData, category, ToLower(text))
    IN  IF s.UserDataNil THEN { Panic(s) }
        ELSE { Outcome([s EXCEPT !.UserData = data, !.State = StateChoosing],
                       << Msg("neat", <<factsToString(data, o)>>, "mainKeyboard") >>)
               : o \in Orders(DOMAIN data) }

handleReceivedInformation(u, s) ==
    LET text == u.text
        category == s.CurrentKey
        data == SetData(s.UserData, category, ToLower(text))
    IN  IF s.UserDataNil THEN { Panic(s) }
        ELSE { Outcome([s EXCEPT !.UserData = data, !.CurrentKey = <<>>,
                                 !.State = StateChoosing],
                       << Msg("neat", <<factsToString(data, o)>>, "mainKeyboard") >>)
               : o \in Orders(DOMAIN data) }

handleDone(u, s) ==
    { Outcome([s EXCEPT !.CurrentKey = <<>>, !.State = StateChoosing],
              << Msg("learned", <<factsToString(s.UserData, o)>>, "removeKeyboard") >>)
      : o \in Orders(DOMAIN s.UserData) }

\* handleShowData ending, as the other handlers do, with a state assignment
handleShowDataReset(u, s) ==
    { Outcome([s EXCEPT !.State = StateChoosing],
              << Msg("show_data", <<factsToString(s.UserData, o)>>, "none") >>)
      : o \in Orders(DOMAIN s.UserData) }

handleShowData(u, s) ==
    { Outcome(s, << Msg("show_data", <<factsToString(s.UserData, o)>>, "none") >>)
      : o \in Orders(DOMAIN s.UserData) }

\* the TypingChoice branch without strings.ToLower
typingChoiceRaw(u, s) ==
    LET key == u.text IN
    { Outcome([s EXCEPT !.CurrentKey = key, !.State = StateTypingReply],
              << Msg("love_to_hear", <<key>>, "none") >>) }

\* the TypingChoice branch of ProcessUpdate that names the category
typingChoice(u, s) ==
    LET key == ToLower(u.text) IN
    { Outcome([s EXCEPT !.CurrentKey = key, !.State = StateTypingReply],
              << Msg("love_to_hear", <<key>>, "none") >>) }

\* ProcessUpdate: the outcomes of routing update u to session s
ProcessUpdate(u, s) ==
    IF ~u.hasMessage THEN { Outcome(s, <<>>) }
    ELSE IF IsCommand(u) /\ Command(u) = CmdStart THEN handleStart(u, s)
    ELSE IF IsCommand(u) /\ Command(u) = CmdShowData THEN handleShowData(u, s)
    ELSE IF s.State = StateChoosing THEN
             IF isRegular(u.text) THEN handleRegularChoice(u, s)
             ELSE IF isCustom(u.text) THEN handleCustomChoice(u, s)
             ELSE IF isDone(u.text) THEN handleDone(u, s)
             ELSE { Outcome(s, <<>>) }
    ELSE IF s.State = StateTypingChoice THEN
             IF ~isDone(u.text) THEN typingChoice(u, s)
             ELSE handleRegularChoice(u, s)
    ELSE IF s.State = StateTypingReply THEN
             IF ~isDone(u.text) THEN handleReceivedInformation(u, s)
             ELSE handleDone(u, s)
    ELSE { Outcome(s, <<>>) }

\* ------------------------------------------------------------------------
\* The JSON snapshot
\* ------------------------------------------------------------------------
\* strconv.FormatInt(n, 10)
RECURSIVE Itoa(_)
Itoa(n) ==
    IF n < 0 THEN <<45>> \o Itoa(0 - n)
    ELSE IF n < 10 THEN <<48 + n>>
    ELSE Itoa(n \div 10) \o <<48 + (n % 10)>>

RECURSIVE AtoiFrom(_, _, _)
AtoiFrom(s, i, acc) ==
    IF i > Len(s) THEN acc ELSE AtoiFrom(s, i + 1, 10 * acc + (s[i] - 48))

\* the value strconv.ParseInt(s, 10, 64) returns when it succeeds
Atoi(s) ==
    IF Len(s) > 0 /\ s[1] = 45 THEN 0 - AtoiFrom(s, 2, 0)
    ELSE IF Len(s) > 0 /\ s[1] = 43 THEN AtoiFrom(s, 2, 0)
    ELSE AtoiFrom(s, 1, 0)

\* s sorts before t as strings of bytes (UTF-8 keeps the order of the code
\* points)
RECURSIVE StrLess(_, _)
StrLess(s, t) ==
    IF Len(t) = 0 THEN FALSE
    ELSE IF Len(s) = 0 THEN TRUE
    ELSE IF s[1] # t[1] THEN s[1] < t[1]
    ELSE StrLess(Tail(s), Tail(t))

\* digits without their leading zeros
RECURSIVE StripZeros(_)
StripZeros(s) ==
    IF Len(s) > 1 /\ s[1] = 48 THEN StripZeros(Tail(s)) ELSE s

\* 2^63 - 1 and 2^63 in digits
MaxInt64 == <<57,50,50,51,51,55,50,48,51,54,56,53,52,55,55,53,56,48,55>>
MinInt64 == <<57,50,50,51,51,55,50,48,51,54,56,53,52,55,55,53,56,48,56>>

\* strconv.ParseInt(s, 10, 64) succeeds: an optional sign, then digits only,
\* and a value that an int64 holds
IsInt64(s) ==
    LET signed == Len(s) > 0 /\ s[1] \in {43, 45}
        digits == IF signed THEN Tail(s) ELSE s
        limit == IF signed /\ s[1] = 45 THEN MinInt64 ELSE MaxInt64
        d == StripZeros(digits)
    IN  /\ Len(digits) > 0
        /\ \A i \in DOMAIN digits : digits[i] >= 48 /\ digits[i] =< 57
        /\ \/ Len(d) < Len(limit)
           \/ Len(d) = Len(limit) /\ ~StrLess(limit, d)

HexDigit(n) == IF n < 10 THEN 48 + n ELSE 87 + n

HexVal(c) ==
    IF c >= 48 /\ c =< 57 THEN c - 48
    ELSE IF c >= 97 /\ c =< 102 THEN c - 87
    ELSE c - 55

\* a byte of a string that is not part of a UTF-8 encoding, where a string is
\* a sequence of code points
BadByte == -1

\* how encoding/json writes one code point of a string (HTML escaping on); a
\* byte that is not UTF-8 is written as the escape of U+FFFD
EscapeChar(c) ==
    IF c = BadByte THEN <<92, 117, 102, 102, 102, 100>>
    ELSE IF c = 34 \/ c = 92 THEN <<92, c>>
    ELSE IF c = 8 THEN <<92, 98>>
    ELSE IF c = 12 THEN <<92, 102>>
    ELSE IF c = 10 THEN <<92, 110>>
    ELSE IF c = 13 THEN <<92, 114>>
    ELSE IF c = 9 THEN <<92, 116>>
    ELSE IF c < 32 \/ c \in {60, 62, 38}
         THEN <<92, 117, 48, 48, HexDigit(c \div 16), HexDigit(c % 16)>>
    ELSE IF c \in {8232, 8233}
         THEN <<92, 117, 50, 48, 50, HexDigit(c - 8224)>>
    ELSE <<c>>

\* the content of the JSON string literal of s
RECURSIVE JsonEscape(_)
JsonEscape(s) ==
    IF Len(s) = 0 THEN <<>> ELSE EscapeChar(Head(s)) \o JsonEscape(Tail(s))

\* the four hex digits of s from position i
Hex4(s, i) ==
    4096 * HexVal(s[i]) + 256 * HexVal(s[i + 1])
    + 16 * HexVal(s[i + 2]) + HexVal(s[i + 3])

\* the string a JSON string literal with content s decodes to: a pair of
\* surrogate escapes is one code point, a surrogate alone is U+FFFD
RECURSIVE JsonUnescape(_)
JsonUnescape(s) ==
    IF Len(s) = 0 THEN <<>>
    ELSE IF s[1] # 92 THEN <<s[1]>> \o JsonUnescape(Tail(s))
    ELSE IF s[2] = 117
         THEN LET r == Hex4(s, 3) IN
              IF /\ r >= 55296 /\ r =< 56319
                 /\ Len(s) >= 12 /\ s[7] = 92 /\ s[8] = 117
                 /\ Hex4(s, 9) >= 56320 /\ Hex4(s, 9) =< 57343
              THEN <<65536 + (r - 55296) * 1024 + (Hex4(s, 9) - 56320)>>
                   \o JsonUnescape(SubSeq(s, 13, Len(s)))
              ELSE <<IF r >= 55296 /\ r =< 57343 THEN 65533 ELSE r>>
                   \o JsonUnescape(SubSeq(s, 7, Len(s)))
    ELSE << CASE s[2] = 98 -> 8
              [] s[2] = 102 -> 12
              [] s[2] = 110 -> 10
              [] s[2] = 114 -> 13
              [] s[2] = 116 -> 9
              [] OTHER -> s[2] >>
         \o JsonUnescape(SubSeq(s, 3, Len(s)))

\* JSON values as a document holds them: null; a number as written; a string
\* literal by its content as written; an object by its members in the order
\* written, each a name as written and a value; any other value (an array,
\* true, false) as written
JNull == [t |-> "null", v |-> <<>>]
JNum(tok) == [t |-> "num", v |-> tok]
JStr(txt) == [t |-> "str", v |-> txt]
JObj(members) == [t |-> "obj", v |-> members]
JOther(txt) == [t |-> "other", v |-> txt]

\* the struct tags of UserSession
TagState == <<115,116,97,116,101>>
TagCurrentKey == <<99,117,114,114,101,110,116,95,107,101,121>>
TagUserData == <<117,115,101,114,95,100,97,116,97>>
TagLastUpdated == <<108,97,115,116,95,117,112,100,97,116,101,100>>

\* the strings of S in the order encoding/json writes map keys: sorted
RECURSIVE SortedKeys(_)
SortedKeys(S) ==
    IF S = {} THEN <<>>
    ELSE LET m == CHOOSE x \in S : \A y \in S \ {x} : StrLess(x, y)
         IN  <<m>> \o SortedKeys(S \ {m})

\* a map[string]string as a JSON value: null for the nil map
MarshalData(d, isNil) ==
    IF isNil THEN JNull
    ELSE LET keys == SortedKeys(DOMAIN d) IN
         JObj([i \in 1..Len(keys) |->
                  <<JsonEscape(keys[i]), JStr(JsonEscape(d[keys[i]]))>>])

\* MarshalSession with CurrentKey tagged json:"-"
MarshalSessionNoKey(s) ==
    IF s = NilSession THEN JNull
    ELSE JObj(<< <<TagState, JNum(Itoa(s.State))>>,
                 <<TagUserData, MarshalData(s.UserData, s.UserDataNil)>>,
                 <<TagLastUpdated, JNum(Itoa(s.LastUpdated))>> >>)

\* the JSON value of a UserSession from what the encoder has read of it, by
\* its struct tags: the fields in the order declared; e holds State, whether
\* current_key is written (omitempty) and CurrentKey
EncodeSession(e, userData, isNil, lastUpdated) ==
    JObj(<< <<TagState, JNum(Itoa(e.State))>> >>
         \o (IF e.hasKey
             THEN << <<TagCurrentKey, JStr(JsonEscape(e.CurrentKey))>> >>
             ELSE <<>>)
         \o << <<TagUserData, MarshalData(userData, isNil)>>,
               <<TagLastUpdated, JNum(Itoa(lastUpdated))>> >>)

\* the JSON value of a *UserSession read at one moment: current_key omitted
\* when empty; null for the nil pointer
MarshalSession(s) ==
    IF s = NilSession THEN JNull
    ELSE EncodeSession([State |-> s.State, hasKey |-> s.CurrentKey # <<>>,
                        CurrentKey |-> s.CurrentKey],
                       s.UserData, s.UserDataNil, s.LastUpdated)

\* json.MarshalIndent of a map[int64]*UserSession given by value: the keys
\* sorted as strings; null for the nil map
MarshalIndent(m, isNil) ==
    IF isNil THEN JNull
    ELSE LET keys == SortedKeys({Itoa(a) : a \in DOMAIN m}) IN
         JObj([i \in 1..Len(keys) |->
                  <<keys[i], MarshalSession(m[Atoi(keys[i])])>>])

\* a number that an int or int64 field takes
IsNumber(tok) == IsInt64(tok)

\* how encoding/json folds a character of a member name to match it with a
\* struct tag: letters without their case, and the two characters that fold
\* to "s" and "k"
FoldChar(c) ==
    IF c >= 65 /\ c =< 90 THEN c + 32
    ELSE IF c = 383 THEN 115
    ELSE IF c = 8490 THEN 107
    ELSE c

\* member name (as written) names the field tagged tag
NamesField(name, tag) ==
    LET n == JsonUnescape(name) IN
    /\ Len(n) = Len(tag)
    /\ \A i \in DOMAIN n : FoldChar(n[i]) = tag[i]

\* the result of decoding: the value left in the target and whether
\* json.Unmarshal has an error to return
Decoded(val, err) == [val |-> val, err |-> err]

\* the members of a JSON object from the i-th on decoded into the
\* map[string]string d: a string is stored, and for any other value the
\* empty string is stored (with an error unless the value is null)
RECURSIVE UnmarshalDataFrom(_, _, _)
UnmarshalDataFrom(members, i, acc) ==
    IF i > Len(members) THEN acc
    ELSE LET k == JsonUnescape(members[i][1])
             v == members[i][2]
         IN  UnmarshalDataFrom(members, i + 1,
                 Decoded(SetData(acc.val, k,
                                 IF v.t = "str" THEN JsonUnescape(v.v) ELSE <<>>),
                         acc.err \/ v.t \notin {"str", "null"}))

\* a JSON object decoded into a map[string]string
UnmarshalData(o) == UnmarshalDataFrom(o.v, 1, Decoded(NoData, FALSE)).val

\* the zero UserSession: its map is nil
ZeroSession ==
    [State |-> 0, CurrentKey |-> <<>>, UserData |-> NoData, LastUpdated |-> 0,
     UserDataNil |-> TRUE]

\* one member of a JSON object decoded into the UserSession s: a value of
\* the type of the field is stored; null leaves an int or a string as it is
\* and makes the map nil; a value of another type leaves the field as it is
\* and is an error; a member that names no field is skipped
UnmarshalField(s, name, v) ==
    IF NamesField(name, TagState) THEN
        IF v.t = "num" /\ IsNumber(v.v)
        THEN Decoded([s EXCEPT !.State = Atoi(v.v)], FALSE)
        ELSE Decoded(s, v.t # "null")
    ELSE IF NamesField(name, TagCurrentKey) THEN
        IF v.t = "str"
        THEN Decoded([s EXCEPT !.CurrentKey = JsonUnescape(v.v)], FALSE)
        ELSE Decoded(s, v.t # "null")
    ELSE IF NamesField(name, TagUserData) THEN
        IF v.t = "obj"
        THEN LET d == UnmarshalDataFrom(v.v, 1, Decoded(s.UserData, FALSE))
             IN  Decoded([s EXCEPT !.UserData = d.val, !.UserDataNil = FALSE],
                         d.err)
        ELSE IF v.t = "null"
        THEN Decoded([s EXCEPT !.UserData = NoData, !.UserDataNil = TRUE], FALSE)
        ELSE Decoded(s, TRUE)
    ELSE IF NamesField(name, TagLastUpdated) THEN
        IF v.t = "num" /\ IsNumber(v.v)
        THEN Decoded([s EXCEPT !.LastUpdated = Atoi(v.v)], FALSE)
        ELSE Decoded(s, v.t # "null")
    ELSE Decoded(s, FALSE)

RECURSIVE UnmarshalFieldsFrom(_, _, _)
UnmarshalFieldsFrom(members, i, acc) ==
    IF i > Len(members) THEN acc
    ELSE LET f == UnmarshalField(acc.val, members[i][1], members[i][2])
         IN  UnmarshalFieldsFrom(members, i + 1,
                                 Decoded(f.val, acc.err \/ f.err))

\* a JSON value decoded into a nil *UserSession: null leaves the nil
\* pointer; for any other value a zero UserSession is allocated, which an
\* object then fills and any other value leaves as it is, with an error
UnmarshalPointer(v) ==
    IF v.t = "null" THEN Decoded(NilSession, FALSE)
    ELSE IF v.t = "obj"
    THEN UnmarshalFieldsFrom(v.v, 1, Decoded(ZeroSession, FALSE))
    ELSE Decoded(ZeroSession, TRUE)

\* a UserSession decoded from a JSON object
UnmarshalSession(o) == UnmarshalPointer(o).val

\* the members of a JSON object from the i-th on decoded into the
\* map[int64]*UserSession m: each value is decoded into a new pointer, which
\* is stored under the key when the key is an int64, and else is an error
RECURSIVE UnmarshalMapFrom(_, _, _)
UnmarshalMapFrom(members, i, acc) ==
    IF i > Len(members) THEN acc
    ELSE LET k == JsonUnescape(members[i][1])
             p == UnmarshalPointer(members[i][2])
             m == acc.val
         IN  UnmarshalMapFrom(members, i + 1,
                 IF IsInt64(k)
                 THEN Decoded([a \in DOMAIN m \cup {Atoi(k)} |->
                                  IF a = Atoi(k) THEN p.val ELSE m[a]],
                              acc.err \/ p.err)
                 ELSE Decoded(m, TRUE))

\* the result of decoding into a map: the entries of the map, whether the
\* map is nil and whether json.Unmarshal has an error to return
DecodedMap(val, err, isNil) == [val |-> val, err |-> err, isNil |-> isNil]

\* json.Unmarshal of a document that is valid JSON into the empty
\* map[int64]*UserSession that NewStorage made: an object fills the map,
\* null sets the map to nil, any other value leaves it and is an error
UnmarshalMap(doc) ==
    IF doc.t = "obj"
    THEN LET d == UnmarshalMapFrom(doc.v, 1, Decoded(<<>>, FALSE))
         IN  DecodedMap(d.val, d.err, FALSE)
    ELSE IF doc.t = "null" THEN DecodedMap(<<>>, FALSE, TRUE)
    ELSE DecodedMap(<<>>, TRUE, FALSE)

\* the map of a result of decoding: the entries by value, and whether the
\* map is nil
MapOf(d) == [val |-> d.val, isNil |-> d.isNil]

\* what json.Unmarshal leaves in s.Sessions
Unmarshal(doc) == MapOf(UnmarshalMap(doc))

\* json.Unmarshal returns an error for a document that is valid JSON
UnmarshalError(doc) == UnmarshalMap(doc).err

\* the number of bytes of the UTF-8 encoding of code point c, and of a string
Utf8Len(c) == IF c < 128 THEN 1 ELSE IF c < 2048 THEN 2 ELSE IF c < 65536 THEN 3 ELSE 4

RECURSIVE Utf8Bytes(_)
Utf8Bytes(s) == IF Len(s) = 0 THEN 0 ELSE Utf8Len(Head(s)) + Utf8Bytes(Tail(s))

\* the number of bytes json.MarshalIndent(v, "", "  ") prints for a value
\* that stands on a line indented by ind, and for the members of an object
\* from the i-th on, each on a line of its own indented by ind
RECURSIVE ValueLen(_, _)
RECURSIVE MembersLen(_, _, _)
ValueLen(v, ind) ==
    CASE v.t = "null" -> 4
      [] v.t = "num" -> Len(v.v)
      [] v.t = "str" -> 2 + Utf8Bytes(v.v)
      [] v.t = "obj" ->
            IF Len(v.v) = 0 THEN 2
            ELSE 1 + MembersLen(v.v, 1, ind + 2) + (Len(v.v) - 1) + 1 + ind + 1
      [] OTHER -> Utf8Bytes(v.v)

MembersLen(members, i, ind) ==
    IF i > Len(members) THEN 0
    ELSE 1 + ind + (2 + Utf8Bytes(members[i][1])) + 2
         + ValueLen(members[i][2], ind) + MembersLen(members, i + 1, ind)

\* the bytes of the document as MarshalIndent(s.Sessions, "", "  ") prints it
JsonLen(doc) == ValueLen(doc, 0)

\* the storage file: absent; or holding a document that is valid JSON; or
\* empty; or holding size bytes that are not valid JSON
NoFile == [exists |-> FALSE, form |-> "none", doc |-> JNull, size |-> 0]

FileWith(doc) == [exists |-> TRUE, form |-> "json", doc |-> doc, size |-> JsonLen(doc)]

EmptyFile == [exists |-> TRUE, form |-> "empty", doc |-> JNull, size |-> 0]

BrokenFile(n) == [exists |-> TRUE, form |-> "broken", doc |-> JNull, size |-> n]

\* ------------------------------------------------------------------------
\* State
\* ------------------------------------------------------------------------
VARIABLES
    Sessions,   \* ThreadSafeStorage.Sessions: actor id -> address of its record
    heap,       \* the UserSession records allocated so far, by address
    file,       \* the storage file
    SessionsNil, \* ThreadSafeStorage.Sessions is the nil map
    mu,         \* the RWMutex of the storage
    pc,         \* position of the dispatch loop of main
    upd,        \* the update the loop is handling
    session,    \* the address GetOrCreateSession returned to the loop
    pre,        \* the record as ProcessUpdate found it
    sent,       \* the messages ProcessUpdate handed to bot.Send
    sigpc,      \* position of the signal goroutine of main
    nEvents,    \* number of updates taken from the channel
    tpc,        \* position of each goroutine inside a call of the storage
    targ,       \* the actor id each goroutine passed
    tret,       \* the address each goroutine was returned
    phase,      \* position of the persistence round trip
    storage2,   \* Sessions of the second storage of the round trip, by value
    delivered,  \* for each message of sent, whether bot.Send succeeded
    nSaved,     \* number of times the loop has saved the storage
    tbuf,       \* the data the Save of each goroutine marshalled last
    tenc,       \* the encoder of the MarshalIndent each goroutine is in
    pending,    \* the outcome ProcessUpdate is writing to the session
    since,      \* where a snapshot marshalled since the signal arrived is held
    crashed     \* the runtime has ended the process after a panic or a throw

vars == <<Sessions, SessionsNil, heap, file, mu, pc, upd, session, pre, sent, sigpc,
          nEvents, tpc, targ, tret, phase, storage2, delivered, nSaved,
          tbuf, tenc, pending, since, crashed>>

storeVars == <<Sessions, SessionsNil, heap, file, mu>>
loopVars == <<pc, upd, session, pre, sent, pending, delivered, nEvents, nSaved>>
sigVars == <<sigpc, since>>
callerVars == <<tpc, targ, tret, tbuf, tenc>>
tripVars == <<phase, storage2>>

Actors == {1, 2}

\* the goroutines that call the storage: concurrent callers of
\* GetOrCreateSession; one more caller, of GetSession and Save; the dispatch
\* loop of main; the signal goroutine of main
Threads == 1..NumThreads
Reader == NumThreads + 1
LoopG == NumThreads + 2
SigG == NumThreads + 3
Callers == Threads \cup {Reader}
Goroutines == Callers \cup {LoopG, SigG}

\* the storage file, as a place that holds a snapshot
OnDisk == 0

\* the RWMutex: the writer holding it (0: none) and the readers holding it
Unlocked == [writer |-> 0, readers |-> {}]

\* the Sessions map by value; address 0 is the nil pointer
Deref(m, h) == [a \in DOMAIN m |-> IF m[a] = 0 THEN NilSession ELSE h[m[a]]]

\* what Save marshals when no record changes while json.MarshalIndent reads
\* the map
Save(m, h, isNil) == FileWith(MarshalIndent(Deref(m, h), isNil))

\* the entries of s.Sessions as the encoder of the map collects them before
\* it writes any: the key as text and the pointer, sorted by the key
SortedEntries(m) ==
    LET keys == SortedKeys({Itoa(a) : a \in DOMAIN m}) IN
    [i \in 1..Len(keys) |-> <<keys[i], m[Atoi(keys[i])]>>]

\* the encoder of a MarshalIndent: the entries of s.Sessions still to write,
\* the members written, and of the record it is writing what it has read:
\* State, whether current_key is written (omitempty), CurrentKey, the
\* length of UserData, whether the range over UserData has begun, the keys
\* the range has yet to yield and the entries it has yielded
NoEnc ==
    [todo |-> <<>>, done |-> <<>>, State |-> 0, hasKey |-> FALSE,
     CurrentKey |-> <<>>, n |-> 0, started |-> FALSE, left |-> {}, seen |-> NoData]

\* the first n bytes of string s: a character cut in its middle leaves
\* bytes that are not UTF-8
RECURSIVE TakeBytes(_, _)
TakeBytes(s, n) ==
    IF n = 0 \/ Len(s) = 0 THEN <<>>
    ELSE IF Utf8Len(Head(s)) =< n
         THEN <<Head(s)>> \o TakeBytes(Tail(s), n - Utf8Len(Head(s)))
    ELSE [i \in 1..n |-> BadByte]

\* the reads of a string through a header made of the pointer of s and a
\* length of n bytes; the empty string has the nil pointer. A read gives
\* the value read, or it faults, which is a panic for the nil pointer and a
\* throw for any other address; the bytes a read past the end of the string
\* finds are, as far as the model follows them, zero bytes or bytes that
\* are not UTF-8
Header(s, n) ==
    IF n =< Utf8Bytes(s)
    THEN {[kind |-> "value", val |-> TakeBytes(s, n)]}
    ELSE IF s = <<>> THEN {[kind |-> "panic", val |-> <<>>]}
    ELSE {[kind |-> "value",
           val |-> s \o [i \in 1..(n - Utf8Bytes(s)) |-> b]] :
             b \in {0, BadByte}}
         \cup {[kind |-> "throw", val |-> <<>>]}

\* the reads of a string field that holds old, while another goroutine is
\* or is not (mid) in the middle of storing new in it: a string is two words,
\* pointer and length, and the reader can find one of each
ReadString(old, new, mid) ==
    IF ~mid THEN {[kind |-> "value", val |-> old]}
    ELSE {[kind |-> "value", val |-> old], [kind |-> "value", val |-> new]}
         \cup Header(old, Utf8Bytes(new)) \cup Header(new, Utf8Bytes(old))

\* what Load leaves in the empty Sessions map that NewStorage made: the
\* entries by value, and whether the map is nil
Load(f) ==
    IF ~f.exists THEN [val |-> <<>>, isNil |-> FALSE]
    ELSE IF f.form = "empty" THEN [val |-> <<>>, isNil |-> FALSE]
    ELSE IF f.form = "broken" THEN [val |-> <<>>, isNil |-> FALSE]
    ELSE Unmarshal(f.doc)

\* the texts the gateway delivers, each with the length of its command
\* entity; Pizza is the word in Cyrillic letters, U+041F U+0438 U+0446 U+0446
\* U+0430
Pizza == <<1055,1080,1094,1094,1072>>
TextInputs ==
    { <<Age, 0>>, <<ToLower(Age), 0>>, <<Done, 0>>, <<ToLower(Done), 0>>,
      <<SomethingElse, 0>>, <<SomethingElsePrefix \o <<33,33,33>>, 0>>,
      <<Pizza, 0>>, <<<<>>, 0>>,
      <<<<47>> \o CmdStart, 6>>, <<<<47>> \o CmdShowData, 10>>,
      <<<<47,104,101,108,112>>, 5>> }

\* the updates the gateway delivers: one without a message, every text from
\* actor 1, one text from actor 2
Updates ==
    {NoMessage} \cup {Message(1, ti[1], ti[2]) : ti \in TextInputs}
                \cup {Message(2, Pizza, 0)}

LoopInit ==
    /\ pc = "recv"
    /\ upd = NoMessage
    /\ session = 0
    /\ pre = NewSession
    /\ sent = <<>>
    /\ pending = Outcome(NewSession, <<>>)
    /\ delivered = <<>>
    /\ nEvents = 0
    /\ nSaved = 0

SigInit ==
    /\ sigpc = "wait"
    /\ since = {}
    /\ crashed = FALSE

CallerIdle ==
    /\ tpc = [t \in Goroutines |-> "idle"]
    /\ targ = [t \in Goroutines |-> 0]
    /\ tret = [t \in Goroutines |-> 0]
    /\ tbuf = [t \in Goroutines |-> NoFile]
    /\ tenc = [t \in Goroutines |-> NoEnc]

TripIdle ==
    /\ phase = "off"
    /\ storage2 = <<>>

\* the map and the records of a storage whose sessions are m, by value, and
\* whose map is nil or not; the records are laid out by ascending actor id
Allocate(m, isNil) ==
    LET made == {a \in DOMAIN m : m[a] # NilSession}
        rank(a) == Cardinality({b \in made : b =< a})
    IN  [Sessions |-> [a \in DOMAIN m |-> IF a \in made THEN rank(a) ELSE 0],
         heap |-> [i \in 1..Cardinality(made) |->
                      m[CHOOSE a \in made : rank(a) = i]],
         isNil |-> isNil]

\* the storage that holds what Load left
Loaded(l) == Allocate(l.val, l.isNil)

\* NewStorage: an empty map, then Load
NewStorage(f) == Loaded(Load(f))

\* a snapshot an earlier run left: actor 1 told two facts, actor 2 was
\* asked to name a category of its own
Thirty == <<51,48>>
Color == <<99,111,108,111,114>>
Blue == <<98,108,117,101>>
EarlierStore ==
    [a \in {1, 2} |->
        IF a = 1
        THEN [State |-> StateChoosing, CurrentKey |-> <<>>,
              UserData |-> SetData(SetData(NoData, ToLower(Age), Thirty), Color, Blue),
              LastUpdated |-> 0, UserDataNil |-> FALSE]
        ELSE [State |-> StateTypingChoice, CurrentKey |-> <<>>,
              UserData |-> NoData, LastUpdated |-> 0, UserDataNil |-> FALSE]]

StartFiles == {NoFile, FileWith(MarshalIndent(EarlierStore, FALSE))}

\* a storage file that is valid JSON with a field of the wrong type: the
\* state of actor 1 is the string "x"
MistypedDoc ==
    JObj(<< <<Itoa(1),
              JObj(<< <<TagState, JStr(<<120>>)>>,
                      <<TagUserData,
                        MarshalData(SetData(NoData, ToLower(Age), Thirty), FALSE)>>,
                      <<TagLastUpdated, JNum(Itoa(0))>> >>)>> >>)

\* a storage file written by hand: actor 1 waits for the value of "age" and
\* has no user_data member, the member of actor 2 is null
SparseDoc ==
    JObj(<< <<Itoa(1),
              JObj(<< <<TagState, JNum(Itoa(StateTypingReply))>>,
                      <<TagCurrentKey, JStr(ToLower(Age))>> >>)>>,
            <<Itoa(2), JNull>> >>)

\* a snapshot an earlier run left: actor 1 was asked for its age
PendingStore ==
    [a \in {1} |->
        [State |-> StateTypingReply, CurrentKey |-> ToLower(Age),
         UserData |-> NoData, LastUpdated |-> 0, UserDataNil |-> FALSE]]

\* the files NewStorage may find: none, a snapshot, an empty file, bytes
\* that are not JSON, a document with a mistyped field, the document null,
\* a snapshot with a pending category
StoreFiles ==
    StartFiles \cup {EmptyFile, BrokenFile(7), FileWith(MistypedDoc), FileWith(JNull),
                     FileWith(MarshalIndent(PendingStore, FALSE))}

\* the process is alive: os.Exit has not been called and the runtime has not
\* ended the process
Running ==
    /\ sigpc # "exited"
    /\ ~crashed

\* ------------------------------------------------------------------------
\* The methods of ThreadSafeStorage, step by step, for a goroutine t
\* ------------------------------------------------------------------------
\* goroutine t is in no call of the storage
AtRest(t) == tpc[t] \in {"idle", "returned"}

\* caller t enters GetOrCreateSession(a)
GocCall(t, a) ==
    /\ AtRest(t) /\ Running
    /\ tpc' = [tpc EXCEPT ![t] = "lock"]
    /\ targ' = [targ EXCEPT ![t] = a]
    /\ tret' = [tret EXCEPT ![t] = 0]
    /\ UNCHANGED <<storeVars, tbuf, tenc, loopVars, sigVars, tripVars, crashed>>

\* s.RLock() in the place of s.Lock()
GocLockShared(t) ==
    /\ tpc[t] = "lock" /\ Running
    /\ mu.writer = 0
    /\ mu' = [mu EXCEPT !.readers = @ \cup {t}]
    /\ tpc' = [tpc EXCEPT ![t] = "check"]
    /\ UNCHANGED <<Sessions, SessionsNil, heap, file, targ, tret, tbuf, tenc, loopVars, sigVars, tripVars, crashed>>

\* s.Lock(): waits until no writer and no reader holds the mutex
GocLock(t) ==
    /\ tpc[t] = "lock" /\ Running
    /\ mu.writer = 0 /\ mu.readers = {}
    /\ mu' = [mu EXCEPT !.writer = t]
    /\ tpc' = [tpc EXCEPT ![t] = "check"]
    /\ UNCHANGED <<Sessions, SessionsNil, heap, file, targ, tret, tbuf, tenc, loopVars, sigVars, tripVars, crashed>>

\* GetOrCreateSession without the existence test
GocCheckBlind(t) ==
    /\ tpc[t] = "check" /\ Running
    /\ tpc' = [tpc EXCEPT ![t] = "insert"]
    /\ UNCHANGED <<storeVars, targ, tret, tbuf, tenc, loopVars, sigVars, tripVars, crashed>>

\* if _, exists := s.Sessions[userID]; !exists
GocCheck(t) ==
    /\ tpc[t] = "check" /\ Running
    /\ tpc' = [tpc EXCEPT ![t] =
                  IF targ[t] \in DOMAIN Sessions THEN "return" ELSE "insert"]
    /\ UNCHANGED <<storeVars, targ, tret, tbuf, tenc, loopVars, sigVars, tripVars, crashed>>

\* s.Sessions[userID] = &UserSession{...}: the assignment to an entry of
\* the nil map panics, with the mutex still held
GocInsert(t) ==
    /\ tpc[t] = "insert" /\ Running
    /\ IF SessionsNil
       THEN /\ tpc' = [tpc EXCEPT ![t] = "panicking"]
            /\ UNCHANGED <<Sessions, heap, crashed>>
       ELSE /\ heap' = Append(heap, NewSession)
            /\ Sessions' = [a \in DOMAIN Sessions \cup {targ[t]} |->
                               IF a = targ[t] THEN Len(heap) + 1 ELSE Sessions[a]]
            /\ tpc' = [tpc EXCEPT ![t] = "return"]
    /\ UNCHANGED <<SessionsNil, file, mu, targ, tret, tbuf, tenc, loopVars, sigVars, tripVars, crashed>>

\* return s.Sessions[userID]
GocReturn(t) ==
    /\ tpc[t] = "return" /\ Running
    /\ tret' = [tret EXCEPT ![t] = Sessions[targ[t]]]
    /\ tpc' = [tpc EXCEPT ![t] = "unlock"]
    /\ UNCHANGED <<storeVars, targ, tbuf, tenc, loopVars, sigVars, tripVars, crashed>>

\* the deferred s.Unlock(): it runs when the method returns and when the
\* panic unwinds it; the panic then goes on with nothing to recover it
GocUnlock(t) ==
    /\ tpc[t] \in {"unlock", "panicking"} /\ Running
    /\ mu' = [writer |-> IF mu.writer = t THEN 0 ELSE mu.writer,
              readers |-> mu.readers \ {t}]
    /\ tpc' = [tpc EXCEPT ![t] = IF tpc[t] = "unlock" THEN "returned" ELSE "panicked"]
    /\ UNCHANGED <<Sessions, SessionsNil, heap, file, targ, tret, tbuf, tenc, loopVars, sigVars, tripVars, crashed>>

\* caller t enters GetSession(a)
GsCall(t, a) ==
    /\ AtRest(t) /\ Running
    /\ tpc' = [tpc EXCEPT ![t] = "gs_rlock"]
    /\ targ' = [targ EXCEPT ![t] = a]
    /\ tret' = [tret EXCEPT ![t] = 0]
    /\ UNCHANGED <<storeVars, tbuf, tenc, loopVars, sigVars, tripVars, crashed>>

\* s.RLock(): waits until no writer holds the mutex
GsRLock(t) ==
    /\ tpc[t] = "gs_rlock" /\ Running
    /\ mu.writer = 0
    /\ mu' = [mu EXCEPT !.readers = @ \cup {t}]
    /\ tpc' = [tpc EXCEPT ![t] = "gs_lookup"]
    /\ UNCHANGED <<Sessions, SessionsNil, heap, file, targ, tret, tbuf, tenc, loopVars, sigVars, tripVars, crashed>>

\* if session, exists := s.Sessions[userID]; exists { return session };
\* return nil
GsLookup(t) ==
    /\ tpc[t] = "gs_lookup" /\ Running
    /\ tret' = [tret EXCEPT ![t] =
                   IF targ[t] \in DOMAIN Sessions THEN Sessions[targ[t]] ELSE 0]
    /\ tpc' = [tpc EXCEPT ![t] = "gs_runlock"]
    /\ UNCHANGED <<storeVars, targ, tbuf, tenc, loopVars, sigVars, tripVars, crashed>>

\* the deferred s.RUnlock()
GsRUnlock(t) ==
    /\ tpc[t] = "gs_runlock" /\ Running
    /\ mu' = [mu EXCEPT !.readers = @ \ {t}]
    /\ tpc' = [tpc EXCEPT ![t] = "returned"]
    /\ UNCHANGED <<Sessions, SessionsNil, heap, file, targ, tret, tbuf, tenc, loopVars, sigVars, tripVars, crashed>>

\* caller t enters Save()
SaveCall(t) ==
    /\ AtRest(t) /\ Running
    /\ tpc' = [tpc EXCEPT ![t] = "sv_rlock"]
    /\ targ' = [targ EXCEPT ![t] = 0]
    /\ tret' = [tret EXCEPT ![t] = 0]
    /\ UNCHANGED <<storeVars, tbuf, tenc, loopVars, sigVars, tripVars, crashed>>

\* s.RLock()
SaveRLock(t) ==
    /\ tpc[t] = "sv_rlock" /\ Running
    /\ mu.writer = 0
    /\ mu' = [mu EXCEPT !.readers = @ \cup {t}]
    /\ tpc' = [tpc EXCEPT ![t] = "sv_marshal"]
    /\ UNCHANGED <<Sessions, SessionsNil, heap, file, targ, tret, tbuf, tenc, loopVars, sigVars, tripVars, crashed>>

\* the encoder of goroutine t goes on at position p, with state e
EncGo(t, p, e) ==
    /\ tenc' = [tenc EXCEPT ![t] = e]
    /\ tpc' = [tpc EXCEPT ![t] = p]
    /\ UNCHANGED <<tbuf, since>>

\* json.MarshalIndent returns the document to Save, with no error
EncReturn(t, doc) ==
    /\ tbuf' = [tbuf EXCEPT ![t] = FileWith(doc)]
    /\ since' = IF sigpc = "wait" THEN since ELSE since \cup {t}
    /\ tenc' = [tenc EXCEPT ![t] = NoEnc]
    /\ tpc' = [tpc EXCEPT ![t] = "sv_open"]

\* the encoder has the value of the entry it is at: it goes to the next
\* entry, or, after the last, MarshalIndent returns
EncMember(t, value) ==
    IF Len(tenc[t].todo) = 1
    THEN EncReturn(t, JObj(Append(tenc[t].done, <<tenc[t].todo[1][1], value>>)))
    ELSE EncGo(t, "enc_state",
               [NoEnc EXCEPT !.todo = Tail(tenc[t].todo),
                             !.done = Append(tenc[t].done,
                                             <<tenc[t].todo[1][1], value>>)])

\* MarshalIndent does not return: a panic, which encoding/json passes on
\* and which unwinds Save, or a throw, which unwinds nothing
EncDie(t, kind) ==
    EncGo(t, IF kind = "panic" THEN "sv_panicking" ELSE "fatal", NoEnc)

\* data, err := json.MarshalIndent(s.Sessions, "", "  "), its beginning: null
\* for the nil map, else the entries of s.Sessions are collected and sorted
SaveMarshal(t) ==
    /\ tpc[t] = "sv_marshal" /\ Running
    /\ IF SessionsNil THEN EncReturn(t, JNull)
       ELSE IF DOMAIN Sessions = {} THEN EncReturn(t, JObj(<<>>))
       ELSE EncGo(t, "enc_state", [NoEnc EXCEPT !.todo = SortedEntries(Sessions)])
    /\ UNCHANGED <<storeVars, targ, tret, loopVars, sigpc, tripVars, crashed>>

\* the encoder comes to an entry: null for the nil pointer, else it reads
\* State of the record
EncState(t) ==
    /\ tpc[t] = "enc_state" /\ Running
    /\ IF tenc[t].todo[1][2] = 0
       THEN EncMember(t, JNull)
       ELSE EncGo(t, "enc_omit",
                  [tenc[t] EXCEPT !.State = heap[tenc[t].todo[1][2]].State])
    /\ UNCHANGED <<storeVars, targ, tret, loopVars, sigpc, tripVars, crashed>>

\* omitempty of current_key: the encoder reads the length of CurrentKey,
\* the old or the new one when the loop is in the middle of storing the
\* CurrentKey of this record
EncOmit(t) ==
    /\ tpc[t] = "enc_omit" /\ Running
    /\ \E key \in {heap[tenc[t].todo[1][2]].CurrentKey}
                  \cup (IF pc = "w_key_mid" /\ session = tenc[t].todo[1][2]
                        THEN {pending.session.CurrentKey} ELSE {}) :
          EncGo(t, IF key = <<>> THEN "enc_len" ELSE "enc_key",
                [tenc[t] EXCEPT !.hasKey = (key # <<>>)])
    /\ UNCHANGED <<storeVars, targ, tret, loopVars, sigpc, tripVars, crashed>>

\* the encoder reads CurrentKey and writes it; the loop can be in the
\* middle of storing the CurrentKey of this record
EncKey(t) ==
    /\ tpc[t] = "enc_key" /\ Running
    /\ \E r \in ReadString(heap[tenc[t].todo[1][2]].CurrentKey,
                           pending.session.CurrentKey,
                           pc = "w_key_mid"
                               /\ session = tenc[t].todo[1][2]) :
          IF r.kind = "value"
          THEN EncGo(t, "enc_len", [tenc[t] EXCEPT !.CurrentKey = r.val])
          ELSE EncDie(t, r.kind)
    /\ UNCHANGED <<storeVars, targ, tret, loopVars, sigpc, tripVars, crashed>>

\* the encoder of the UserData map: null for the nil map, else
\* sv = make([]reflectWithString, v.Len())
EncLen(t) ==
    /\ tpc[t] = "enc_len" /\ Running
    /\ IF heap[tenc[t].todo[1][2]].UserDataNil
       THEN EncMember(t, EncodeSession(tenc[t], NoData, TRUE,
                                       heap[tenc[t].todo[1][2]].LastUpdated))
       ELSE EncGo(t, "enc_next",
                  [tenc[t] EXCEPT
                      !.n = Cardinality(DOMAIN heap[tenc[t].todo[1][2]].UserData)])
    /\ UNCHANGED <<storeVars, targ, tret, loopVars, sigpc, tripVars, crashed>>

\* for i := 0; mi.Next(); i++ { sv[i].ks = mi.Key(); sv[i].v = mi.Value() }:
\* the first Next begins the range, which yields every key the map has at
\* that moment and may yield a key that enters the map later.  Next yields
\* an entry: it is read into sv[i], and that panics (index out of range)
\* when the map has grown since v.Len().  Or Next yields no more: the
\* entries are sorted and written, then LastUpdated
EncNext(t) ==
    /\ tpc[t] = "enc_next" /\ Running
    /\ LET e == tenc[t]
           p == e.todo[1][2]
           left == IF e.started THEN e.left ELSE DOMAIN heap[p].UserData
       IN  \/ \E k \in DOMAIN heap[p].UserData \ DOMAIN e.seen :
                 IF Cardinality(DOMAIN e.seen) >= e.n
                 THEN EncDie(t, "panic")
                 ELSE \E r \in ReadString(heap[p].UserData[k],
                                          IF k \in DOMAIN pending.session.UserData
                                          THEN pending.session.UserData[k]
                                          ELSE <<>>,
                                          pc = "w_data_mid" /\ session = p
                                              /\ k = pre.CurrentKey) :
                         IF r.kind = "value"
                         THEN EncGo(t, "enc_next",
                                    [e EXCEPT !.started = TRUE,
                                              !.left = left \ {k},
                                              !.seen = SetData(e.seen, k, r.val)])
                         ELSE EncDie(t, r.kind)
           \/ /\ left = {}
              /\ EncMember(t, EncodeSession(e, e.seen, FALSE, heap[p].LastUpdated))
    /\ UNCHANGED <<storeVars, targ, tret, loopVars, sigpc, tripVars, crashed>>

\* Next finds the UserData map marked as being written by the loop's
\* assignment to it: the runtime throws "fatal error: concurrent map
\* iteration and map write"
SaveFatal(t) ==
    /\ tpc[t] = "enc_next" /\ Running
    /\ pc = "w_data_in" /\ session = tenc[t].todo[1][2]
    /\ EncDie(t, "throw")
    /\ UNCHANGED <<storeVars, targ, tret, loopVars, sigpc, tripVars, crashed>>

\* what a write of data at offset 0 leaves in file f: the data, or the data
\* followed by the rest of a longer content, which is not JSON
WriteAt0(f, data) == IF f.size =< data.size THEN data ELSE BrokenFile(f.size)

\* os.WriteFile(s.FilePath, data, 0644), first half: the file is opened
\* with O_TRUNC
SaveOpen(t) ==
    /\ tpc[t] = "sv_open" /\ Running
    /\ file' = EmptyFile
    /\ since' = since \ {OnDisk}
    /\ tpc' = [tpc EXCEPT ![t] = "sv_write"]
    /\ UNCHANGED <<Sessions, SessionsNil, heap, mu, targ, tret, tbuf, tenc, loopVars, sigpc, tripVars, crashed>>

\* os.WriteFile, second half: the data is written from offset 0
SaveWrite(t) ==
    /\ tpc[t] = "sv_write" /\ Running
    /\ file' = WriteAt0(file, tbuf[t])
    /\ since' = IF t \in since /\ file' = tbuf[t]
                THEN since \cup {OnDisk} ELSE since \ {OnDisk}
    /\ tpc' = [tpc EXCEPT ![t] = "sv_runlock"]
    /\ UNCHANGED <<Sessions, SessionsNil, heap, mu, targ, tret, tbuf, tenc, loopVars, sigpc, tripVars, crashed>>

\* the deferred s.RUnlock(): it runs when Save returns and when a panic of
\* MarshalIndent unwinds it; the panic then goes on with nothing to recover it
SaveRUnlock(t) ==
    /\ tpc[t] \in {"sv_runlock", "sv_panicking"} /\ Running
    /\ mu' = [mu EXCEPT !.readers = @ \ {t}]
    /\ tpc' = [tpc EXCEPT ![t] = IF tpc[t] = "sv_runlock" THEN "returned"
                                  ELSE "panicked"]
    /\ UNCHANGED <<Sessions, SessionsNil, heap, file, targ, tret, tbuf, tenc, loopVars, sigVars, tripVars, crashed>>

\* ------------------------------------------------------------------------
\* main: the dispatch loop and the signal goroutine, step by step
\* ------------------------------------------------------------------------
\* main up to the loop: NewStorage loads the storage file, if there is one
Init ==
    /\ file \in StartFiles
    /\ \E storage \in {NewStorage(file)} :
          /\ Sessions = storage.Sessions
          /\ SessionsNil = storage.isNil
          /\ heap = storage.heap
    /\ mu = Unlocked
    /\ LoopInit
    /\ SigInit
    /\ CallerIdle
    /\ TripIdle

\* ProcessUpdate on update u for session s assigns to the UserData map: it
\* runs handleReceivedInformation
WritesFacts(u, s) ==
    /\ u.hasMessage
    /\ ~(IsCommand(u) /\ Command(u) \in {CmdStart, CmdShowData})
    /\ s.State = StateTypingReply
    /\ ~isDone(u.text)

\* if update.Message == nil { continue }
Skip ==
    /\ pc = "recv" /\ Running /\ nEvents < MaxEvents
    /\ nEvents' = nEvents + 1
    /\ upd' = NoMessage
    /\ UNCHANGED <<storeVars, pc, session, pre, sent, pending, delivered, nSaved,
                   callerVars, sigVars, tripVars, crashed>>

\* the loop takes an update with a message and calls
\* storage.GetOrCreateSession(userID)
Receive(u) ==
    /\ pc = "recv" /\ Running /\ nEvents < MaxEvents
    /\ u.hasMessage
    /\ nEvents' = nEvents + 1
    /\ upd' = u
    /\ sent' = <<>>
    /\ delivered' = <<>>
    /\ tpc' = [tpc EXCEPT ![LoopG] = "lock"]
    /\ targ' = [targ EXCEPT ![LoopG] = u.from]
    /\ tret' = [tret EXCEPT ![LoopG] = 0]
    /\ pc' = "get"
    /\ UNCHANGED <<storeVars, session, pre, pending, nSaved, tbuf, tenc, sigVars, tripVars, crashed>>

\* GetOrCreateSession has returned: log.Printf reads session.State, which
\* panics on the nil pointer; ProcessUpdate picks the handler, and what the
\* handler will have assigned and sent when it returns is kept in pending;
\* the handler that assigns to a nil map panics
Dispatch ==
    /\ pc = "get" /\ Running
    /\ tpc[LoopG] = "returned"
    /\ session' = tret[LoopG]
    /\ IF tret[LoopG] = 0
       THEN /\ pc' = "panicked"
            /\ UNCHANGED <<pre, pending, crashed>>
       ELSE /\ pre' = heap[tret[LoopG]]
            /\ \E out \in ProcessUpdate(upd, heap[tret[LoopG]]) :
                  /\ pending' = out
                  /\ pc' = IF out.panics THEN "panicked"
                           ELSE IF WritesFacts(upd, heap[tret[LoopG]]) THEN "w_data"
                           ELSE "w_key"
    /\ UNCHANGED <<storeVars, upd, sent, delivered, nEvents, nSaved,
                   callerVars, sigVars, tripVars, crashed>>

\* session.UserData[category] = strings.ToLower(text): the runtime enters
\* the map assignment and marks the map as being written
MapAssignBegin ==
    /\ pc = "w_data" /\ Running
    /\ pc' = "w_data_in"
    /\ UNCHANGED <<storeVars, upd, session, pre, sent, pending, delivered, nEvents,
                   nSaved, callerVars, sigVars, tripVars, crashed>>

\* the map assignment finds the entry of the key, or makes one that holds
\* the empty string, and the mark is taken off
MapAssignKey ==
    /\ pc = "w_data_in" /\ Running
    /\ heap' = [heap EXCEPT ![session].UserData =
                    IF pre.CurrentKey \in DOMAIN @ THEN @
                    ELSE SetData(@, pre.CurrentKey, <<>>)]
    /\ pc' = "w_data_val"
    /\ UNCHANGED <<Sessions, SessionsNil, file, mu, upd, session, pre, sent, pending,
                   delivered, nEvents, nSaved, callerVars, sigVars, tripVars, crashed>>

\* the value is stored in the entry: a string is two words, and the first
\* is stored
MapAssignStore ==
    /\ pc = "w_data_val" /\ Running
    /\ pc' = "w_data_mid"
    /\ UNCHANGED <<storeVars, upd, session, pre, sent, pending, delivered, nEvents,
                   nSaved, callerVars, sigVars, tripVars, crashed>>

\* the second word of the value is stored
MapAssignEnd ==
    /\ pc = "w_data_mid" /\ Running
    /\ heap' = [heap EXCEPT ![session].UserData = pending.session.UserData]
    /\ pc' = "w_key"
    /\ UNCHANGED <<Sessions, SessionsNil, file, mu, upd, session, pre, sent, pending,
                   delivered, nEvents, nSaved, callerVars, sigVars, tripVars, crashed>>

\* the handler's assignment to session.CurrentKey, if it has one: the first
\* of the two words of the string is stored
WriteKey ==
    /\ pc = "w_key" /\ Running
    /\ pc' = "w_key_mid"
    /\ UNCHANGED <<storeVars, upd, session, pre, sent, pending, delivered, nEvents,
                   nSaved, callerVars, sigVars, tripVars, crashed>>

\* the second word of CurrentKey is stored
WriteKeyEnd ==
    /\ pc = "w_key_mid" /\ Running
    /\ heap' = [heap EXCEPT ![session].CurrentKey = pending.session.CurrentKey]
    /\ pc' = "send"
    /\ UNCHANGED <<Sessions, SessionsNil, file, mu, upd, session, pre, sent, pending, delivered,
                   nEvents, nSaved, callerVars, sigVars, tripVars, crashed>>

\* bot.Send with the transition undone when the gateway fails
AfterSendRollback(before, out, oks) ==
    IF \A i \in DOMAIN oks : oks[i] THEN out.session ELSE before

\* the session after the handler's bot.Send calls returned oks: the handlers
\* drop what bot.Send returns
AfterSend(before, out, oks) == out.session

\* bot.Send(msg): the message is handed to the gateway, and the call
\* returns when the gateway has answered or failed
Send ==
    /\ pc = "send" /\ Running
    /\ sent' = pending.sent
    /\ \E oks \in [1..Len(pending.sent) -> BOOLEAN] : delivered' = oks
    /\ pc' = "w_state"
    /\ UNCHANGED <<storeVars, upd, session, pre, pending, nEvents, nSaved,
                   callerVars, sigVars, tripVars, crashed>>

\* the handler's assignment to session.State, if it has one, its last
\* statement; ProcessUpdate returns and the loop calls storage.Save()
WriteState ==
    /\ pc = "w_state" /\ Running
    /\ heap' = [heap EXCEPT ![session].State =
                                AfterSend(pre, pending, delivered).State]
    /\ tpc' = [tpc EXCEPT ![LoopG] = "sv_rlock"]
    /\ pc' = "save"
    /\ UNCHANGED <<Sessions, SessionsNil, file, mu, upd, session, pre, sent, pending,
                   delivered, nEvents, nSaved, targ, tret, tbuf, tenc, sigVars, tripVars, crashed>>

\* Save has returned: the loop goes for the next update
LoopNext ==
    /\ pc = "save" /\ Running
    /\ tpc[LoopG] = "returned"
    /\ nSaved' = nSaved + 1
    /\ pc' = "recv"
    /\ UNCHANGED <<storeVars, upd, session, pre, sent, pending, delivered, nEvents,
                   callerVars, sigVars, tripVars, crashed>>

\* <-c: the signal arrives and the goroutine calls storage.Save()
Signal ==
    /\ sigpc = "wait" /\ Running
    /\ sigpc' = "save"
    /\ tpc' = [tpc EXCEPT ![SigG] = "sv_rlock"]
    /\ UNCHANGED <<storeVars, loopVars, targ, tret, tbuf, tenc, since, tripVars, crashed>>

\* Save has returned: os.Exit(0) ends the process, wherever the loop is
SignalExit ==
    /\ sigpc = "save" /\ Running
    /\ tpc[SigG] = "returned"
    /\ sigpc' = "exited"
    /\ UNCHANGED <<storeVars, loopVars, callerVars, since, tripVars, crashed>>

\* a panic that nothing recovers, or a throw, ends the process: the runtime
\* prints the goroutine traces and exits with status 2, and until it has,
\* the other goroutines run on
Crash ==
    /\ Running
    /\ \/ pc = "panicked"
       \/ \E t \in Goroutines : tpc[t] \in {"panicked", "fatal"}
    /\ crashed' = TRUE
    /\ UNCHANGED <<storeVars, loopVars, callerVars, sigVars, tripVars>>

Next ==
    \/ Skip
    \/ \E u \in Updates : Receive(u)
    \/ GocLock(LoopG)
    \/ GocCheck(LoopG)
    \/ GocInsert(LoopG)
    \/ GocReturn(LoopG)
    \/ GocUnlock(LoopG)
    \/ Dispatch
    \/ MapAssignBegin
    \/ MapAssignKey
    \/ MapAssignStore
    \/ MapAssignEnd
    \/ WriteKey
    \/ WriteKeyEnd
    \/ Send
    \/ WriteState
    \/ \E t \in {LoopG, SigG} : SaveRLock(t)
    \/ \E t \in {LoopG, SigG} : SaveMarshal(t)
    \/ \E t \in {LoopG, SigG} : EncState(t)
    \/ \E t \in {LoopG, SigG} : EncOmit(t)
    \/ \E t \in {LoopG, SigG} : EncKey(t)
    \/ \E t \in {LoopG, SigG} : EncLen(t)
    \/ \E t \in {LoopG, SigG} : EncNext(t)
    \/ \E t \in {LoopG, SigG} : SaveOpen(t)
    \/ \E t \in {LoopG, SigG} : SaveWrite(t)
    \/ \E t \in {LoopG, SigG} : SaveRUnlock(t)
    \/ SaveFatal(SigG)
    \/ Crash
    \/ LoopNext
    \/ Signal
    \/ SignalExit

Spec == Init /\ [][Next]_vars

\* ------------------------------------------------------------------------
\* The storage under concurrent callers: the threads call
\* GetOrCreateSession, the reader calls GetSession and Save
\* ------------------------------------------------------------------------
StoreInit ==
    /\ file \in StoreFiles
    /\ \E storage \in {NewStorage(file)} :
          /\ Sessions = storage.Sessions
          /\ SessionsNil = storage.isNil
          /\ heap = storage.heap
    /\ mu = Unlocked
    /\ LoopInit
    /\ SigInit
    /\ CallerIdle
    /\ TripIdle

NextStore ==
    \/ \E t \in Threads, a \in Actors : GocCall(t, a)
    \/ \E t \in Threads : GocLock(t)
    \/ \E t \in Threads : GocCheck(t)
    \/ \E t \in Threads : GocInsert(t)
    \/ \E t \in Threads : GocReturn(t)
    \/ \E t \in Threads : GocUnlock(t)
    \/ \E a \in Actors : GsCall(Reader, a)
    \/ GsRLock(Reader)
    \/ GsLookup(Reader)
    \/ GsRUnlock(Reader)
    \/ SaveCall(Reader)
    \/ SaveRLock(Reader)
    \/ SaveMarshal(Reader)
    \/ EncState(Reader)
    \/ EncOmit(Reader)
    \/ EncKey(Reader)
    \/ EncLen(Reader)
    \/ EncNext(Reader)
    \/ SaveOpen(Reader)
    \/ SaveWrite(Reader)
    \/ SaveRUnlock(Reader)
    \/ Crash

SpecStore == StoreInit /\ [][NextStore]_vars

\* ------------------------------------------------------------------------
\* The dispatch loop with a concurrent caller of GetSession and Save
\* ------------------------------------------------------------------------
\* number of events the loop takes in this specification
MaxApplied == 2

\* the updates of this specification
ServeUpdates ==
    {Message(1, Age, 0), Message(1, Thirty, 0), Message(2, Pizza, 0)}

ServeInit ==
    /\ file \in StoreFiles \cup {FileWith(SparseDoc)}
    /\ \E storage \in {NewStorage(file)} :
          /\ Sessions = storage.Sessions
          /\ SessionsNil = storage.isNil
          /\ heap = storage.heap
    /\ mu = Unlocked
    /\ LoopInit
    /\ SigInit
    /\ CallerIdle
    /\ TripIdle

ServeReceive(u) ==
    /\ nEvents < MaxApplied
    /\ Receive(u)

NextServe ==
    \/ \E u \in ServeUpdates : ServeReceive(u)
    \/ GocLock(LoopG)
    \/ GocCheck(LoopG)
    \/ GocInsert(LoopG)
    \/ GocReturn(LoopG)
    \/ GocUnlock(LoopG)
    \/ Dispatch
    \/ MapAssignBegin
    \/ MapAssignKey
    \/ MapAssignStore
    \/ MapAssignEnd
    \/ WriteKey
    \/ WriteKeyEnd
    \/ Send
    \/ WriteState
    \/ LoopNext
    \/ \E a \in Actors : GsCall(Reader, a)
    \/ GsRLock(Reader)
    \/ GsLookup(Reader)
    \/ GsRUnlock(Reader)
    \/ SaveCall(Reader)
    \/ \E t \in {LoopG, Reader} : SaveRLock(t)
    \/ \E t \in {LoopG, Reader} : SaveMarshal(t)
    \/ \E t \in {LoopG, Reader} : EncState(t)
    \/ \E t \in {LoopG, Reader} : EncOmit(t)
    \/ \E t \in {LoopG, Reader} : EncKey(t)
    \/ \E t \in {LoopG, Reader} : EncLen(t)
    \/ \E t \in {LoopG, Reader} : EncNext(t)
    \/ \E t \in {LoopG, Reader} : SaveOpen(t)
    \/ \E t \in {LoopG, Reader} : SaveWrite(t)
    \/ \E t \in {LoopG, Reader} : SaveRUnlock(t)
    \/ SaveFatal(Reader)
    \/ Crash

SpecServe == ServeInit /\ [][NextServe]_vars

\* ------------------------------------------------------------------------
\* Save, then a second storage on the same path
\* ------------------------------------------------------------------------
\* the facts, pending categories and actor ids the round trip is tried on
Quoted == <<97,34,98,92>>
Lines == <<60,51,10,120>>
TripData ==
    { SetData(NoData, ToLower(Age), Thirty),
      SetData(SetData(NoData, ToLower(Age), Thirty), Color, Blue),
      SetData(SetData(NoData, Quoted, Lines), <<>>, <<38>>) }

TripKeys == {<<>>, ToLower(Age), Quoted}

TripActors == {7, 12345}

TripSessions ==
    [State : States, CurrentKey : TripKeys, UserData : TripData, LastUpdated : {0},
     UserDataNil : {FALSE}]

TripStores ==
    UNION { [A -> TripSessions] : A \in SUBSET TripActors \ {{}} }

TripInit ==
    /\ file \in StartFiles
    /\ \E m \in TripStores :
          /\ Sessions = Allocate(m, FALSE).Sessions
          /\ SessionsNil = FALSE
          /\ heap = Allocate(m, FALSE).heap
    /\ mu = Unlocked
    /\ LoopInit
    /\ SigInit
    /\ CallerIdle
    /\ phase = "start"
    /\ storage2 = <<>>

\* storage.Save(), with no other goroutine running
TripSave ==
    /\ phase = "start"
    /\ file' = WriteAt0(EmptyFile, Save(Sessions, heap, SessionsNil))
    /\ phase' = "saved"
    /\ UNCHANGED <<Sessions, SessionsNil, heap, mu, storage2, loopVars, sigVars, callerVars, crashed>>

\* storage2 := NewStorage(path)
TripReopen ==
    /\ phase = "saved"
    /\ storage2' = Deref(NewStorage(file).Sessions, NewStorage(file).heap)
    /\ phase' = "loaded"
    /\ UNCHANGED <<storeVars, loopVars, sigVars, callerVars, crashed>>

NextTrip == TripSave \/ TripReopen

SpecPersist == TripInit /\ [][NextTrip]_vars

\* ------------------------------------------------------------------------
\* Properties of the state machine
\* ------------------------------------------------------------------------
\* ProcessUpdate has run on upd: pre is the record before, cur the record after
Processed == pc = "save"

cur == heap[session]

StartCommand(u) == IsCommand(u) /\ Command(u) = CmdStart

ShowCommand(u) == IsCommand(u) /\ Command(u) = CmdShowData

\* a text that is dispatched on the state, not handled as one of the commands
PlainText(u) == u.hasMessage /\ ~StartCommand(u) /\ ~ShowCommand(u)

\* "Done", in any case
SaysDone(t) == ToLower(t) = <<100,111,110,101>>

Categories == {Age, FavouriteColour, NumberOfSiblings}

\* C3, as claimed: in every session of the store, pendingCategory
\* (CurrentKey) is non-empty exactly when the state is TypingReply, so it is
\* empty in Choosing.  The code breaks it: handleStart leaves CurrentKey.
C3_PendingIffTypingReply ==
    \A p \in DOMAIN heap :
        (heap[p].CurrentKey # <<>>) <=> (heap[p].State = StateTypingReply)

\* C4, as claimed: after a start command, in any state, the state is Choosing,
\* pendingCategory is empty and facts are unchanged.  The code breaks it.
C4_StartClearsPending ==
    (Processed /\ StartCommand(upd)) =>
        /\ cur.State = StateChoosing
        /\ cur.CurrentKey = <<>>
        /\ cur.UserData = pre.UserData

\* C5, as claimed: after a text that says Done, in any state, pendingCategory
\* is empty, facts are unchanged and the state is Choosing.  The code breaks
\* it in TypingChoice.
C5_DoneInEveryState ==
    (Processed /\ PlainText(upd) /\ SaysDone(upd.text)) =>
        /\ cur.CurrentKey = <<>>
        /\ cur.UserData = pre.UserData
        /\ cur.State = StateChoosing

\* C6, as claimed: in Choosing, a text equal to a category up to case sets
\* pendingCategory to the lower-cased text and moves to TypingReply, facts
\* unchanged.  The code breaks it: the pattern of the categories is matched
\* with the case as written, so "age" is ignored.
C6_AnyCaseCategory ==
    (Processed /\ PlainText(upd) /\ pre.State = StateChoosing
       /\ ToLower(upd.text) \in {ToLower(c) : c \in Categories}) =>
        /\ cur.CurrentKey = ToLower(upd.text)
        /\ cur.State = StateTypingReply
        /\ cur.UserData = pre.UserData

\* the facts after recording v under category c: only c changes
Recorded(before, after, c, v) ==
    /\ DOMAIN after = DOMAIN before \cup {c}
    /\ after[c] = v
    /\ \A k \in DOMAIN before : k # c => after[k] = before[k]

\* C7, as claimed: in TypingReply with pendingCategory c, a text t that is not
\* Done leaves facts[c] = t as sent, the other facts unchanged,
\* pendingCategory empty and the state Choosing.
C7_RecordsRawText ==
    (Processed /\ PlainText(upd) /\ pre.State = StateTypingReply
       /\ ~SaysDone(upd.text)) =>
        /\ Recorded(pre.UserData, cur.UserData, pre.CurrentKey, upd.text)
        /\ cur.CurrentKey = <<>>
        /\ cur.State = StateChoosing

\* C7, amended: in TypingReply with pendingCategory c, a text t that is not
\* Done leaves facts[c] = the lower-cased t, the other facts unchanged,
\* pendingCategory empty and the state Choosing.
C7_RecordsLoweredText ==
    (Processed /\ PlainText(upd) /\ pre.State = StateTypingReply
       /\ ~SaysDone(upd.text)) =>
        /\ Recorded(pre.UserData, cur.UserData, pre.CurrentKey, ToLower(upd.text))
        /\ cur.CurrentKey = <<>>
        /\ cur.State = StateChoosing

C7_Witness ==
    /\ Processed /\ pre.State = StateTypingReply /\ upd.text = Pizza
    /\ pre.CurrentKey = ToLower(Age)
    /\ pre.UserData # NoData
    /\ cur.State = StateChoosing

\* C8: from Choosing, "Something else..." moves to TypingChoice without
\* changing facts or pendingCategory; in TypingChoice, a text t that is not
\* Done sets pendingCategory to the lower-cased t and moves to TypingReply,
\* facts unchanged.
C8_CustomCategory ==
    /\ (Processed /\ PlainText(upd) /\ pre.State = StateChoosing
          /\ upd.text = SomethingElse) =>
            /\ cur.State = StateTypingChoice
            /\ cur.UserData = pre.UserData
            /\ cur.CurrentKey = pre.CurrentKey
    /\ (Processed /\ PlainText(upd) /\ pre.State = StateTypingChoice
          /\ ~SaysDone(upd.text)) =>
            /\ cur.CurrentKey = ToLower(upd.text)
            /\ cur.State = StateTypingReply
            /\ cur.UserData = pre.UserData

C8_Witness ==
    /\ Processed /\ pre.State = StateTypingChoice /\ upd.text = Pizza
    /\ cur.State = StateTypingReply /\ cur.CurrentKey # upd.text

\* C9: the show command, in any state, leaves state, pendingCategory and
\* facts unchanged and sends exactly one reply, which lists every fact as a
\* "<category> - <value>" line.
C9_ShowIsPureRead ==
    (Processed /\ ShowCommand(upd)) =>
        /\ cur = pre
        /\ Len(sent) = 1
        /\ sent[1].tmpl = "show_data"
        /\ \E o \in Orders(DOMAIN pre.UserData) :
              sent[1].args =
                << Join([i \in 1..Len(o) |-> o[i] \o <<32,45,32>> \o pre.UserData[o[i]]],
                        <<10>>) >>

C9_Witness ==
    /\ Processed /\ ShowCommand(upd)
    /\ Cardinality(DOMAIN pre.UserData) = 2
    /\ pre.State = StateTypingReply
    /\ Len(sent) = 1

\* C10, as claimed: in Choosing, a text that is no command, no category, not
\* the sentinel "Something else..." and not Done changes nothing and sends
\* nothing.  The code breaks it: the dots of the sentinel's pattern match
\* any character.
C10_UnmatchedIgnored ==
    (Processed /\ PlainText(upd) /\ pre.State = StateChoosing
       /\ ToLower(upd.text) \notin {ToLower(c) : c \in Categories}
       /\ ToLower(upd.text) # ToLower(SomethingElse)
       /\ ~SaysDone(upd.text)) =>
        /\ cur = pre
        /\ sent = <<>>

\* ------------------------------------------------------------------------
\* Properties of the store
\* ------------------------------------------------------------------------
\* C1: after Save and a fresh NewStorage on the same path, every actor of the
\* saved store has a record in the new one with the same state, the same
\* facts and the same pendingCategory.
C1_RoundTrip ==
    phase = "loaded" =>
        \A a \in DOMAIN Sessions :
            /\ a \in DOMAIN storage2
            /\ storage2[a].State = heap[Sessions[a]].State
            /\ storage2[a].UserData = heap[Sessions[a]].UserData
            /\ storage2[a].CurrentKey = heap[Sessions[a]].CurrentKey

C1_Witness ==
    /\ phase = "loaded"
    /\ DOMAIN Sessions = TripActors
    /\ heap[Sessions[7]].CurrentKey = <<>>
    /\ heap[Sessions[12345]].CurrentKey = Quoted
    /\ heap[Sessions[12345]].State = StateTypingChoice
    /\ Quoted \in DOMAIN heap[Sessions[12345]].UserData
    /\ DOMAIN storage2 = TripActors

\* C2: however concurrent GetOrCreateSession calls interleave, every actor
\* has one record and every record made is the one in the store (no
\* duplicate), and each caller that has its handle holds the record that the
\* store holds for its actor.
C2_OneRecordPerActor ==
    /\ Len(heap) = Cardinality(DOMAIN Sessions)
    /\ \A a, b \in DOMAIN Sessions : Sessions[a] = Sessions[b] => a = b
    /\ \A t \in Threads :
          tpc[t] \in {"unlock", "returned"} => tret[t] = Sessions[targ[t]]

C2_Witness ==
    /\ file = NoFile
    /\ \A t \in Threads : tpc[t] = "returned" /\ targ[t] = 2
    /\ \A t, w \in Threads : tret[t] = tret[w] /\ tret[t] # 0

\* ------------------------------------------------------------------------
\* Properties of the dispatch loop
\* ------------------------------------------------------------------------
\* C11, as claimed: two runs of ProcessUpdate from the same state, facts and
\* pendingCategory on the same event end with the same state, facts,
\* pendingCategory and reply text, also when the reply enumerates two or more
\* facts.  The code breaks it: the reply follows the iteration order of a map.
C11_Deterministic ==
    (pc = "get" /\ tpc[LoopG] = "returned" /\ tret[LoopG] # 0) =>
        \A o1, o2 \in ProcessUpdate(upd, heap[tret[LoopG]]) : o1 = o2

\* C12, as claimed: an event without a message, or with a message whose text
\* is empty, changes no session's state, pendingCategory or facts, in any
\* state.  The code breaks it for the empty text in TypingChoice and in
\* TypingReply.
C12_MalformedIgnored ==
    [][ /\ (nEvents' = nEvents + 1 /\ ~upd'.hasMessage) =>
              (heap' = heap /\ Sessions' = Sessions)
        /\ (pc # "save" /\ pc' = "save" /\ upd.text = <<>>) =>
              /\ heap'[session].State = pre.State
              /\ heap'[session].CurrentKey = pre.CurrentKey
              /\ heap'[session].UserData = pre.UserData ]_vars

\* C13, as claimed: every event taken from the stream is followed by a Save
\* before the next one is taken, so whenever the loop waits for an event it
\* has saved as many times as it has taken events.  The code breaks it: an
\* update without a message is skipped without a Save.
C13_SaveAfterEveryEvent ==
    pc = "recv" => nSaved = nEvents

\* C14: whether bot.Send succeeds or fails, the session ends as ProcessUpdate
\* leaves it (nothing is rolled back), and the loop goes on: when it waits
\* for the next event, its Save has marshalled the store with that state.
C14_SendFailureKeepsTransition ==
    /\ (pc \in {"save", "recv"} /\ upd.hasMessage) =>
          \E out \in ProcessUpdate(upd, pre) :
              cur = out.session /\ sent = out.sent
    /\ (pc = "recv" /\ upd.hasMessage) =>
          (nSaved > 0 /\ tbuf[LoopG] = Save(Sessions, heap, SessionsNil))

C14_Witness ==
    /\ pc = "recv" /\ upd.hasMessage
    /\ Len(delivered) = 1 /\ ~delivered[1]
    /\ pre.State = StateTypingReply /\ cur.State = StateChoosing
    /\ cur.UserData # pre.UserData
    /\ tbuf[LoopG] = Save(Sessions, heap, SessionsNil)

\* C18: every key of the facts of every session is lower-cased.
C18_KeysLowerCased ==
    \A p \in DOMAIN heap :
        \A k \in DOMAIN heap[p].UserData : ToLower(k) = k

C18_Witness ==
    \E p \in DOMAIN heap :
        /\ ToLower(Pizza) \in DOMAIN heap[p].UserData
        /\ ToLower(Pizza) # Pizza
        /\ pc = "save" /\ session = p /\ pre.CurrentKey = ToLower(Pizza)
        /\ pre.State = StateTypingReply

\* ------------------------------------------------------------------------
\* Properties of the storage under concurrent callers
\* ------------------------------------------------------------------------
\* a storage file Load gets no sessions from, as the claim has it: absent,
\* empty, not JSON, or a document json.Unmarshal returns an error for
Unreadable(f) ==
    \/ ~f.exists
    \/ f.form \in {"empty", "broken"}
    \/ f.form = "json" /\ UnmarshalError(f.doc)

\* C15, as claimed: when the storage file NewStorage found is missing or
\* corrupt, the store is empty after NewStorage, and every record made
\* afterwards by GetOrCreateSession is a default session.  The file is the
\* one NewStorage found as long as the reader has called nothing.  The code
\* breaks it for a document with a mistyped field: the entries decoded stay
\* in the map.
C15_LoadFailureLeavesEmptyStore ==
    (tpc[Reader] = "idle" /\ Unreadable(file)) =>
        /\ (\A t \in Threads : tpc[t] = "idle") =>
              (DOMAIN Sessions = {} /\ heap = <<>>)
        /\ \A p \in DOMAIN heap : heap[p] = NewSession

\* goroutine t takes a step inside a method of the storage
StorageStep(t) == ~AtRest(t) /\ (tpc'[t] # tpc[t] \/ tenc'[t] # tenc[t])

\* C16: no step of GetOrCreateSession, GetSession, Save or the state machine
\* removes an actor or puts another record in its place; the steps of the
\* storage methods leave the fields of every record as they are; a record
\* that enters the map is a default session; and the handle a call returns
\* is the record the map holds for the actor.
C16_NeverDeletedOrReplaced ==
    [][ /\ DOMAIN Sessions \subseteq DOMAIN Sessions'
        /\ \A a \in DOMAIN Sessions : Sessions'[a] = Sessions[a]
        /\ (\E t \in Goroutines : StorageStep(t)) =>
              \A p \in DOMAIN heap : heap'[p] = heap[p]
        /\ \A a \in DOMAIN Sessions' \ DOMAIN Sessions :
              heap'[Sessions'[a]] = NewSession
        /\ \A t \in Goroutines :
              (tret'[t] # tret[t] /\ tret'[t] # 0) =>
                  /\ targ[t] \in DOMAIN Sessions
                  /\ tret'[t] = Sessions[targ[t]]
                  /\ heap'[tret'[t]] = heap[tret'[t]] ]_vars

C16_Witness ==
    /\ tpc[Reader] = "gs_runlock"
    /\ tret[Reader] # 0
    /\ heap[tret[Reader]].State = StateTypingReply
    /\ Cardinality(DOMAIN Sessions) = 2
    /\ pc = "save" /\ session = tret[Reader]
    /\ tbuf[Reader].exists

\* goroutine t is inside json.MarshalIndent
InMarshal(t) ==
    tpc[t] \in {"sv_marshal", "enc_state", "enc_omit", "enc_key", "enc_len",
                "enc_next"}

\* caller t is between Lock and Unlock of GetOrCreateSession
InCritical(t) == tpc[t] \in {"check", "insert", "return", "unlock", "panicking"}

\* the member names of a JSON object
Names(o) == {o.v[i][1] : i \in DOMAIN o.v}

\* C19: while Save holds the shared lock no caller is inside
\* GetOrCreateSession, so the snapshot it has read has an entry for exactly
\* the actors of the map, each with all the fields of a record.
C19_SnapshotExcludesInsert ==
    /\ (InMarshal(Reader)
          \/ tpc[Reader] \in {"sv_open", "sv_write", "sv_runlock", "sv_panicking"}) =>
          \A t \in Threads : ~InCritical(t)
    /\ tpc[Reader] \in {"sv_open", "sv_write", "sv_runlock"} =>
          /\ Names(tbuf[Reader].doc) = {Itoa(a) : a \in DOMAIN Sessions}
          /\ \A i \in DOMAIN tbuf[Reader].doc.v :
                /\ tbuf[Reader].doc.v[i][2].t = "obj"
                /\ {TagState, TagUserData, TagLastUpdated}
                      \subseteq Names(tbuf[Reader].doc.v[i][2])

C19_Witness ==
    /\ tpc[Reader] = "sv_write"
    /\ DOMAIN Sessions # {}
    /\ \E t \in Threads : tpc[t] = "lock" /\ targ[t] \notin DOMAIN Sessions

\* ------------------------------------------------------------------------
\* Properties of the loop and the signal goroutine running together
\* ------------------------------------------------------------------------
\* C17, as claimed: the signal goroutine's Save is performed, and when the
\* process exits the storage file holds a snapshot of the whole map that
\* was marshalled after the signal arrived: the one the signal goroutine
\* marshalled, or a later one of the loop.  The code breaks it: os.Exit can
\* end the process while the loop's own Save has truncated the file and not
\* yet written it, the two writes can overlap, and the signal's Save can
\* die on a map being written or on a string being stored.
C17_FinalSnapshotAtExit ==
    /\ tpc[SigG] \notin {"fatal", "sv_panicking", "panicked"}
    /\ sigpc = "exited" => (file = tbuf[SigG] \/ OnDisk \in since)

\* the loop is inside ProcessUpdate
InProcessUpdate ==
    pc \in {"w_data", "w_data_in", "w_data_val", "w_data_mid", "w_key",
            "w_key_mid", "send", "w_state"}

\* the snapshots of the store as it is between two events: as it is when no
\* event is in progress, else as it was before the event or as it will be
\* after it
BetweenEvents ==
    IF InProcessUpdate
    THEN {Save(Sessions, [heap EXCEPT ![session] = pre], SessionsNil),
          Save(Sessions, [heap EXCEPT ![session] = pending.session], SessionsNil)}
    ELSE {Save(Sessions, heap, SessionsNil)}

\* C20, as claimed: every snapshot a Save reads holds, for each session, the
\* state, pendingCategory and facts the session had between two events, and
\* no Save dies reading a map that is being written.  The code breaks it:
\* the signal goroutine's Save reads the records while ProcessUpdate is in
\* the middle of its assignments.
C20_NoHalfAppliedSnapshot ==
    [][ \A t \in Goroutines :
            /\ tbuf'[t] # tbuf[t] => tbuf'[t] \in BetweenEvents
            /\ tpc'[t] \notin {"fatal", "sv_panicking"} ]_vars

====
